---- MODULE Spec2Model ----
(***************************************************************************)
(* EkfLocalizationComponent (src/src/ekf_localization_component.cpp): the  *)
(* ROS 2 node that feeds IMU, GNSS, odometry and initial-pose messages to  *)
(* an EKF estimator (ekf_) and broadcasts the estimated pose on a timer.   *)
(*                                                                         *)
(* Numbers are integers.  Lengths are in model units, time is counted in   *)
(* half seconds, variances are in hundredths.  Orientations are the unit   *)
(* quaternions with integer components (half turns about an axis), so the  *)
(* quaternion-to-matrix conversion and the matrix products of              *)
(* odom_callback are computed exactly.                                     *)
(*                                                                         *)
(* The estimator class itself (ekf_: setInitialX, predictionUpdate,        *)
(* observationUpdate, getX, getNumState) is not part of the source file;   *)
(* it is modelled from the specification's sections 3, 4 and 7.            *)
(***************************************************************************)
EXTENDS Integers, Sequences, FiniteSets, TLC

VARIABLES
    use_gnss_,                  \* parameter use_gnss
    use_odom_,                  \* parameter use_odom
    use_gnss_as_initial_pose_,  \* parameter use_gnss_as_initial_pose
    broadcast_tf_topic_,        \* parameter broadcast_tf_topic
    initial_pose_,              \* std::optional<PoseStamped>
    current_pose_,              \* PoseStamped
    current_pose_odom_,         \* PoseStamped
    current_stamp_,             \* builtin_interfaces Time
    previous_odom_mat_,         \* Eigen::Matrix4d
    ekf_,                       \* the estimator object
    last_call,                  \* the latest call made on ekf_, with its arguments
    n_calls,                    \* how many calls of each operation were made on ekf_
    published,                  \* last message given to current_pose_pub_
    tf_sent,                    \* last transform given to broadcaster_
    last_cb,                    \* the callback that ran last
    executing,                  \* callbacks the executor is running
    twin                        \* the same node, fed the same messages, timer never fired

cfg  == <<use_gnss_, use_odom_, use_gnss_as_initial_pose_, broadcast_tf_topic_>>
node == <<initial_pose_, current_pose_, current_pose_odom_, current_stamp_,
          previous_odom_mat_, ekf_, last_call, n_calls, published, tf_sent>>
vars == <<cfg, node, last_cb, executing, twin>>

(* Bounds of the model *)

\* calls made on the estimator in one run
MaxCalls == 3
\* message stamps range over 1..MaxStamp half seconds
MaxStamp == 2

(* Values *)

\* a non-finite double (NaN), outside the range of every finite value used
NaN == -999

NullOpt == [has_value |-> FALSE]
Some(v) == [has_value |-> TRUE, value |-> v]

\* builtin_interfaces::msg::Time of k half seconds
StampOf(k) == [sec |-> k \div 2, nanosec |-> (k % 2) * 500000000]
StampZero  == StampOf(0)
Stamps     == {StampOf(k) : k \in 1..MaxStamp}

\* sec + nanosec * 1e-9, in half seconds
ToTime(stamp) == 2 * stamp.sec + stamp.nanosec \div 500000000

Vec3Zero == <<0, 0, 0>>
QuatIdentity == <<0, 0, 0, 1>>
QuatHalfTurnZ == <<0, 0, 1, 0>>

IsFinite(v) == v # NaN
FiniteVec(v) == \A i \in DOMAIN v : IsFinite(v[i])

\* geometry_msgs::msg::Pose
Pose(p, q) == [position |-> p, orientation |-> q]
\* geometry_msgs::msg::PoseStamped
PoseStamped(stamp, frame, p, q) ==
    [stamp |-> stamp, frame_id |-> frame, pose |-> Pose(p, q)]
DefaultPoseStamped == PoseStamped(StampZero, "", Vec3Zero, QuatIdentity)

WellFormed(pose) == FiniteVec(pose.position) /\ FiniteVec(pose.orientation)

reference_frame_id_ == "map"
robot_frame_id_ == "base_link"

var_gnss_xy_ == 10
var_gnss_z_ == 15
var_odom_xyz_ == 20
var_gnss_ == <<var_gnss_xy_, var_gnss_xy_, var_gnss_z_>>
var_odom_ == <<var_odom_xyz_, var_odom_xyz_, var_odom_xyz_>>

(* Geometry: Eigen and tf2 conversions used by odom_callback *)

\* double arithmetic: a non-finite operand makes the result non-finite
Times(a, b) == IF a = NaN \/ b = NaN THEN NaN ELSE a * b
Plus(a, b) == IF a = NaN \/ b = NaN THEN NaN ELSE a + b

Dot4(r, c) ==
    Plus(Plus(Times(r[1], c[1]), Times(r[2], c[2])),
         Plus(Times(r[3], c[3]), Times(r[4], c[4])))
Col(M, j) == <<M[1][j], M[2][j], M[3][j], M[4][j]>>

\* Eigen::Matrix4d::Identity()
Identity4 == <<<<1, 0, 0, 0>>, <<0, 1, 0, 0>>, <<0, 0, 1, 0>>, <<0, 0, 0, 1>>>>

\* operator* of two Eigen::Matrix4d
MatMul(A, B) == [i \in 1..4 |-> [j \in 1..4 |-> Dot4(A[i], Col(B, j))]]

\* Eigen::Quaterniond::toRotationMatrix, rows of the 3x3 matrix
QuatToRot(q) ==
    LET x == q[1]  y == q[2]  z == q[3]  w == q[4]
    IN  << <<1 - 2 * (y * y + z * z), 2 * (x * y - z * w), 2 * (x * z + y * w)>>,
           <<2 * (x * y + z * w), 1 - 2 * (x * x + z * z), 2 * (y * z - x * w)>>,
           <<2 * (x * z - y * w), 2 * (y * z + x * w), 1 - 2 * (x * x + y * y)>> >>

\* R * v for a 3x3 matrix given by its rows
RotVec(R, v) == [i \in 1..3 |-> R[i][1] * v[1] + R[i][2] * v[2] + R[i][3] * v[3]]

\* tf2::fromMsg(Pose, Eigen::Affine3d) followed by .matrix():
\* Translation3d(position) * Quaterniond(orientation)
PoseToMat(pose) ==
    LET R == QuatToRot(pose.orientation)
        p == pose.position
    IN  << <<R[1][1], R[1][2], R[1][3], p[1]>>,
           <<R[2][1], R[2][2], R[2][3], p[2]>>,
           <<R[3][1], R[3][2], R[3][3], p[3]>>,
           <<0, 0, 0, 1>> >>

\* Eigen::Matrix4d::inverse() of a rigid transform [R t; 0 1]: [R^T  -R^T t; 0 1]
Inverse(M) ==
    LET Rt == [i \in 1..3 |-> [j \in 1..3 |-> M[j][i]]]
        t  == <<M[1][4], M[2][4], M[3][4]>>
        u  == RotVec(Rt, t)
    IN  << <<Rt[1][1], Rt[1][2], Rt[1][3], 0 - u[1]>>,
           <<Rt[2][1], Rt[2][2], Rt[2][3], 0 - u[2]>>,
           <<Rt[3][1], Rt[3][2], Rt[3][3], 0 - u[3]>>,
           <<0, 0, 0, 1>> >>

\* tf2::doTransform of a Vector3Stamped: the rotation of the transform applied to it
doTransform(v, rotation) == RotVec(QuatToRot(rotation), v)

\* Hamilton product a (x) b of quaternions <<x, y, z, w>>
QuatMul(a, b) ==
    << a[4] * b[1] + a[1] * b[4] + a[2] * b[3] - a[3] * b[2],
       a[4] * b[2] - a[1] * b[3] + a[2] * b[4] + a[3] * b[1],
       a[4] * b[3] + a[1] * b[2] - a[2] * b[1] + a[3] * b[4],
       a[4] * b[4] - a[1] * b[1] - a[2] * b[2] - a[3] * b[3] >>

(* The estimator ekf_, from the specification (sections 3, 4, 7) *)

\* enum STATE: the components of the state vector
StateIndex == {"X", "Y", "Z", "QX", "QY", "QZ", "QW", "VX", "VY", "VZ"}

\* ekf_.getNumState()
getNumState == Cardinality(StateIndex)

\* Eigen::VectorXd::Zero(n), indexed by enum STATE
VectorZero == [i \in StateIndex |-> 0]

PositionOf(x) == <<x.X, x.Y, x.Z>>
OrientationOf(x) == <<x.QX, x.QY, x.QZ, x.QW>>
VelocityOf(x) == <<x.VX, x.VY, x.VZ>>

StateVector(p, q, v) ==
    [X |-> p[1], Y |-> p[2], Z |-> p[3],
     QX |-> q[1], QY |-> q[2], QZ |-> q[3], QW |-> q[4],
     VX |-> v[1], VY |-> v[2], VZ |-> v[3]]

\* specific force of a body at rest, in the reference frame
Gravity == <<0, 0, 2>>

\* the estimator before initialization: not ready, no reference time
EkfInit ==
    [x |-> StateVector(Vec3Zero, QuatIdentity, Vec3Zero),
     previous_time_imu |-> NullOpt,
     ready |-> FALSE]

\* 4.1 initialize: pose sub-block from the given vector, velocity zeroed, filter
\* marked ready; 7: a non-finite pose is rejected outright
setInitialX(e, x) ==
    IF \E i \in StateIndex : ~IsFinite(x[i])
    THEN e
    ELSE [x |-> StateVector(PositionOf(x), OrientationOf(x), Vec3Zero),
          previous_time_imu |-> NullOpt,
          ready |-> TRUE]

\* orientation after dt half seconds at angular velocity w (half turns per half
\* second about a coordinate axis): q (x) (w, 0) once per half second
RECURSIVE QuatStep(_, _, _)
QuatStep(q, w, dt) ==
    IF dt = 0 \/ w = Vec3Zero THEN q
    ELSE QuatStep(QuatMul(q, <<w[1], w[2], w[3], 0>>), w, dt - 1)

\* 4.2 predict: no-op before initialization; the first sample after
\* initialization only sets the reference time; a sample earlier than the
\* previous one is rejected without mutating state; otherwise Euler integration
\* with the pre-update orientation
predictionUpdate(e, current_time_imu, gyro, linear_acceleration) ==
    IF ~e.ready \/ ~FiniteVec(gyro) \/ ~FiniteVec(linear_acceleration) THEN e
    ELSE IF ~e.previous_time_imu.has_value
    THEN [e EXCEPT !.previous_time_imu = Some(current_time_imu)]
    ELSE IF current_time_imu < e.previous_time_imu.value THEN e
    ELSE LET dt == current_time_imu - e.previous_time_imu.value
             q  == OrientationOf(e.x)
             f  == RotVec(QuatToRot(q), linear_acceleration)
             a  == [i \in 1..3 |-> f[i] - Gravity[i]]
             v  == VelocityOf(e.x)
             p  == PositionOf(e.x)
             v2 == [i \in 1..3 |-> v[i] + a[i] * dt]
             p2 == [i \in 1..3 |-> p[i] + v[i] * dt + (a[i] * dt * dt) \div 2]
         IN  [e EXCEPT !.x = StateVector(p2, QuatStep(q, gyro, dt), v2),
                       !.previous_time_imu = Some(current_time_imu)]

\* 4.3 update: no-op before initialization; a non-finite sample is rejected;
\* observation model h(x) = p with a gain whose position block is the identity
observationUpdate(e, y, variance) ==
    IF ~e.ready \/ ~FiniteVec(y) \/ ~FiniteVec(variance) THEN e
    ELSE [e EXCEPT !.x = StateVector(y, OrientationOf(e.x), VelocityOf(e.x))]

\* 4.4 getState: read-only snapshot of the state vector
getX(e) == e.x

(* The node: one record per EkfLocalizationComponent object *)

\* the operations of ekf_ that the node calls to change it
EkfOps == {"setInitialX", "predictionUpdate", "observationUpdate"}

\* the node s after recording a call made on ekf_
Called(s, call) ==
    [s EXCEPT !.last_call = Some(call), !.n_calls[call.op] = @ + 1]

TotalCalls(s) ==
    s.n_calls["setInitialX"] + s.n_calls["predictionUpdate"]
        + s.n_calls["observationUpdate"]

Self ==
    [initial_pose_ |-> initial_pose_,
     current_pose_ |-> current_pose_,
     current_pose_odom_ |-> current_pose_odom_,
     current_stamp_ |-> current_stamp_,
     previous_odom_mat_ |-> previous_odom_mat_,
     ekf_ |-> ekf_,
     last_call |-> last_call,
     n_calls |-> n_calls,
     published |-> published,
     tf_sent |-> tf_sent]

\* the members after construction (initial_pose_(std::nullopt), the others
\* default-constructed; previous_odom_mat_ holds the "no baseline" value
\* odom_callback tests for)
NodeInit ==
    [initial_pose_ |-> NullOpt,
     current_pose_ |-> DefaultPoseStamped,
     current_pose_odom_ |-> DefaultPoseStamped,
     current_stamp_ |-> StampZero,
     previous_odom_mat_ |-> Identity4,
     ekf_ |-> EkfInit,
     last_call |-> NullOpt,
     n_calls |-> [op \in EkfOps |-> 0],
     published |-> NullOpt,
     tf_sent |-> NullOpt]

\* initialPoseCallback that copies the position only and leaves the orientation
\* components of the vector at zero
initialPoseCallback_positionOnly(s, msg, cb) ==
    LET x == [VectorZero EXCEPT
                !.X = msg.pose.position[1],
                !.Y = msg.pose.position[2],
                !.Z = msg.pose.position[3]]
    IN  Called([s EXCEPT
                  !.initial_pose_ = Some(msg),
                  !.current_pose_ = msg,
                  !.ekf_ = setInitialX(@, x)],
               [op |-> "setInitialX", cb |-> cb, stamp |-> msg.stamp, x |-> x])

\* void EkfLocalizationComponent::initialPoseCallback(msg); cb names the
\* subscription that delivered msg (recorded in the trace only)
initialPoseCallback(s, msg, cb) ==
    LET x == [VectorZero EXCEPT
                !.X = msg.pose.position[1],
                !.Y = msg.pose.position[2],
                !.Z = msg.pose.position[3],
                !.QX = msg.pose.orientation[1],
                !.QY = msg.pose.orientation[2],
                !.QZ = msg.pose.orientation[3],
                !.QW = msg.pose.orientation[4]]
    IN  Called([s EXCEPT
                  !.initial_pose_ = Some(msg),
                  !.current_pose_ = msg,
                  !.ekf_ = setInitialX(@, x)],
               [op |-> "setInitialX", cb |-> cb, stamp |-> msg.stamp, x |-> x])

\* void EkfLocalizationComponent::predictUpdate(imu_msg)
predictUpdate(s, imu_msg) ==
    LET current_time_imu == ToTime(imu_msg.stamp)
        gyro == imu_msg.angular_velocity
        linear_acceleration == imu_msg.linear_acceleration
    IN  Called([s EXCEPT
                  !.current_stamp_ = imu_msg.stamp,
                  !.ekf_ = predictionUpdate(@, current_time_imu, gyro,
                                            linear_acceleration)],
               [op |-> "predictionUpdate", cb |-> "imu_callback",
                stamp |-> imu_msg.stamp, t |-> current_time_imu, gyro |-> gyro, acc |-> linear_acceleration])

\* void EkfLocalizationComponent::measurementUpdate(pose_msg, variance); cb names
\* the calling callback (recorded in the trace only)
measurementUpdate(s, pose_msg, variance, cb) ==
    LET y == pose_msg.pose.position
    IN  Called([s EXCEPT
                  !.current_stamp_ = pose_msg.stamp,
                  !.ekf_ = observationUpdate(@, y, variance)],
               [op |-> "observationUpdate", cb |-> cb, stamp |-> pose_msg.stamp,
                y |-> y, variance |-> variance])

\* imu_callback without the test of initial_pose_
imu_callback_ungated(s, msg, tf) ==
    IF tf = "TransformException" \/ tf = "runtime_error"
    THEN s
    ELSE predictUpdate(s,
           [stamp |-> msg.stamp,
            angular_velocity |-> doTransform(msg.angular_velocity, tf),
            linear_acceleration |-> doTransform(msg.linear_acceleration, tf)])

\* imu_callback that drops a sample stamped like the latest one
imu_callback_dropsRepeat(s, msg, tf) ==
    IF s.initial_pose_.has_value /\ msg.stamp # s.current_stamp_
    THEN IF tf = "TransformException" \/ tf = "runtime_error"
         THEN s
         ELSE predictUpdate(s,
                [stamp |-> msg.stamp,
                 angular_velocity |-> doTransform(msg.angular_velocity, tf),
                 linear_acceleration |-> doTransform(msg.linear_acceleration, tf)])
    ELSE s

\* imu_callback that records the stamp of the message before the lookup
imu_callback_stampFirst(s, msg, tf) ==
    IF s.initial_pose_.has_value
    THEN IF tf = "TransformException" \/ tf = "runtime_error"
         THEN [s EXCEPT !.current_stamp_ = msg.stamp]
         ELSE predictUpdate(s,
                [stamp |-> msg.stamp,
                 angular_velocity |-> doTransform(msg.angular_velocity, tf),
                 linear_acceleration |-> doTransform(msg.linear_acceleration, tf)])
    ELSE s

\* the lambda imu_callback; tf is what tfbuffer_.lookupTransform gives for the
\* message: the rotation of the transform, or the exception it throws, either
\* tf2::TransformException or another std::runtime_error
imu_callback(s, msg, tf) ==
    IF s.initial_pose_.has_value
    THEN IF tf = "TransformException" \/ tf = "runtime_error"
         THEN s
         ELSE predictUpdate(s,
                [stamp |-> msg.stamp,
                 angular_velocity |-> doTransform(msg.angular_velocity, tf),
                 linear_acceleration |-> doTransform(msg.linear_acceleration, tf)])
    ELSE s

\* odom_callback without the test of use_odom_
odom_callback_noflag(s, msg) ==
    IF s.initial_pose_.has_value
    THEN LET odom_mat == PoseToMat(msg.pose)
         IN  IF s.previous_odom_mat_ = Identity4
             THEN [s EXCEPT !.current_pose_odom_ = s.current_pose_,
                            !.previous_odom_mat_ = odom_mat]
             ELSE LET current_trans ==
                          MatMul(MatMul(PoseToMat(s.current_pose_odom_.pose),
                                        Inverse(s.previous_odom_mat_)),
                                 odom_mat)
                      pose == PoseStamped(msg.stamp, msg.frame_id,
                                  <<current_trans[1][4], current_trans[2][4],
                                    current_trans[3][4]>>,
                                  QuatIdentity)
                      s1 == measurementUpdate(s, pose, var_odom_, "odom_callback")
                  IN  [s1 EXCEPT !.current_pose_odom_ = s1.current_pose_,
                                 !.previous_odom_mat_ = odom_mat]
    ELSE s

\* odom_callback that passes the GNSS variance to measurementUpdate
odom_callback_gnssVariance(s, msg) ==
    IF s.initial_pose_.has_value /\ use_odom_
    THEN LET odom_mat == PoseToMat(msg.pose)
         IN  IF s.previous_odom_mat_ = Identity4
             THEN [s EXCEPT !.current_pose_odom_ = s.current_pose_,
                            !.previous_odom_mat_ = odom_mat]
             ELSE LET current_trans ==
                          MatMul(MatMul(PoseToMat(s.current_pose_odom_.pose),
                                        Inverse(s.previous_odom_mat_)),
                                 odom_mat)
                      pose == PoseStamped(msg.stamp, msg.frame_id,
                                  <<current_trans[1][4], current_trans[2][4],
                                    current_trans[3][4]>>,
                                  QuatIdentity)
                      s1 == measurementUpdate(s, pose, var_gnss_, "odom_callback")
                  IN  [s1 EXCEPT !.current_pose_odom_ = s1.current_pose_,
                                 !.previous_odom_mat_ = odom_mat]
    ELSE s

\* the lambda odom_callback
odom_callback(s, msg) ==
    IF s.initial_pose_.has_value /\ use_odom_
    THEN LET odom_mat == PoseToMat(msg.pose)
         IN  IF s.previous_odom_mat_ = Identity4
             THEN [s EXCEPT !.current_pose_odom_ = s.current_pose_,
                            !.previous_odom_mat_ = odom_mat]
             ELSE LET current_trans ==
                          MatMul(MatMul(PoseToMat(s.current_pose_odom_.pose),
                                        Inverse(s.previous_odom_mat_)),
                                 odom_mat)
                      pose == PoseStamped(msg.stamp, msg.frame_id,
                                  <<current_trans[1][4], current_trans[2][4],
                                    current_trans[3][4]>>,
                                  QuatIdentity)
                      s1 == measurementUpdate(s, pose, var_odom_, "odom_callback")
                  IN  [s1 EXCEPT !.current_pose_odom_ = s1.current_pose_,
                                 !.previous_odom_mat_ = odom_mat]
    ELSE s

\* gnss_pose_callback whose update branch does not test initial_pose_
gnss_pose_callback_ungated(s, msg) ==
    IF use_gnss_as_initial_pose_ /\ ~s.initial_pose_.has_value
    THEN initialPoseCallback(s, msg, "gnss_pose_callback")
    ELSE IF use_gnss_
         THEN measurementUpdate(s, msg, var_gnss_, "gnss_pose_callback")
         ELSE s

\* gnss_pose_callback that initializes from every message in GNSS-as-initial-pose mode
gnss_pose_callback_reinit(s, msg) ==
    IF use_gnss_as_initial_pose_
    THEN initialPoseCallback(s, msg, "gnss_pose_callback")
    ELSE IF s.initial_pose_.has_value /\ use_gnss_
         THEN measurementUpdate(s, msg, var_gnss_, "gnss_pose_callback")
         ELSE s

\* gnss_pose_callback that also applies the initializing message as a measurement
gnss_pose_callback_initAndUpdate(s, msg) ==
    LET s1 == IF use_gnss_as_initial_pose_ /\ ~s.initial_pose_.has_value
              THEN initialPoseCallback(s, msg, "gnss_pose_callback")
              ELSE s
    IN  IF s1.initial_pose_.has_value /\ use_gnss_
        THEN measurementUpdate(s1, msg, var_gnss_, "gnss_pose_callback")
        ELSE s1

\* the lambda gnss_pose_callback
gnss_pose_callback(s, msg) ==
    IF use_gnss_as_initial_pose_ /\ ~s.initial_pose_.has_value
    THEN initialPoseCallback(s, msg, "gnss_pose_callback")
    ELSE IF s.initial_pose_.has_value /\ use_gnss_
         THEN measurementUpdate(s, msg, var_gnss_, "gnss_pose_callback")
         ELSE s

\* broadcastPose without the test of initial_pose_
broadcastPose_ungated(s) ==
    LET x == getX(s.ekf_)
        pose == PoseStamped(s.current_stamp_, reference_frame_id_,
                            <<x.X, x.Y, x.Z>>, <<x.QX, x.QY, x.QZ, x.QW>>)
        transform_stamped ==
            [stamp |-> s.current_stamp_,
             frame_id |-> reference_frame_id_,
             child_frame_id |-> robot_frame_id_,
             translation |-> pose.pose.position,
             rotation |-> pose.pose.orientation]
    IN  [s EXCEPT
           !.current_pose_ = pose,
           !.published = Some(pose),
           !.tf_sent = IF broadcast_tf_topic_ THEN Some(transform_stamped) ELSE @]

\* void EkfLocalizationComponent::broadcastPose()
broadcastPose(s) ==
    IF s.initial_pose_.has_value
    THEN LET x == getX(s.ekf_)
             pose == PoseStamped(s.current_stamp_, reference_frame_id_,
                                 <<x.X, x.Y, x.Z>>, <<x.QX, x.QY, x.QZ, x.QW>>)
             transform_stamped ==
                 [stamp |-> s.current_stamp_,
                  frame_id |-> reference_frame_id_,
                  child_frame_id |-> robot_frame_id_,
                  translation |-> pose.pose.position,
                  rotation |-> pose.pose.orientation]
         IN  [s EXCEPT
                !.current_pose_ = pose,
                !.published = Some(pose),
                !.tf_sent = IF broadcast_tf_topic_ THEN Some(transform_stamped) ELSE @]
    ELSE s

\* sub_initial_pose_ created whatever the configuration
HasInitialPoseSubscription_always == TRUE

\* sub_initial_pose_ is created only when the initial pose does not come from GNSS
HasInitialPoseSubscription == ~use_gnss_as_initial_pose_

(* Messages *)

PoseA == Pose(<<1, 2, 3>>, QuatIdentity)
PoseB == Pose(<<2, 0, 1>>, QuatHalfTurnZ)
PoseMalformed == Pose(<<NaN, 0, 0>>, QuatIdentity)

GnssPoses == {PoseA, PoseB}
InitialPoses == {PoseA, PoseB, PoseMalformed}
OdomPoses == {Pose(Vec3Zero, QuatIdentity), Pose(<<1, 1, 0>>, QuatHalfTurnZ)}

PoseMsgs(poses, frame, stamps) ==
    {PoseStamped(st, frame, p.position, p.orientation) : st \in stamps, p \in poses}

ImuMsgs ==
    {[stamp |-> st, angular_velocity |-> Vec3Zero, linear_acceleration |-> <<2, 0, 2>>] :
        st \in Stamps}

TfLookups == {"TransformException", "runtime_error", QuatHalfTurnZ}

(* The executor *)

\* a reentrant callback group: a callback is taken while others run
CanTake_reentrant == TRUE

\* every subscription and the timer are created without a callback group, so they
\* share the node's default group, which is mutually exclusive: a callback is
\* taken only while no other callback of the group runs
CanTake == executing = {}

Apply(s) ==
    /\ initial_pose_' = s.initial_pose_
    /\ current_pose_' = s.current_pose_
    /\ current_pose_odom_' = s.current_pose_odom_
    /\ current_stamp_' = s.current_stamp_
    /\ previous_odom_mat_' = s.previous_odom_mat_
    /\ ekf_' = s.ekf_
    /\ last_call' = s.last_call
    /\ n_calls' = s.n_calls
    /\ published' = s.published
    /\ tf_sent' = s.tf_sent

\* callback cb runs to completion and leaves the node as s
Run(cb, s) ==
    /\ TotalCalls(s) <= MaxCalls
    /\ Apply(s)
    /\ last_cb' = cb
    /\ UNCHANGED cfg

Init ==
    /\ use_gnss_ \in BOOLEAN
    /\ use_odom_ \in BOOLEAN
    /\ use_gnss_as_initial_pose_ \in BOOLEAN
    /\ broadcast_tf_topic_ \in BOOLEAN
    /\ initial_pose_ = NodeInit.initial_pose_
    /\ current_pose_ = NodeInit.current_pose_
    /\ current_pose_odom_ = NodeInit.current_pose_odom_
    /\ current_stamp_ = NodeInit.current_stamp_
    /\ previous_odom_mat_ = NodeInit.previous_odom_mat_
    /\ ekf_ = NodeInit.ekf_
    /\ last_call = NodeInit.last_call
    /\ n_calls = NodeInit.n_calls
    /\ published = NodeInit.published
    /\ tf_sent = NodeInit.tf_sent
    /\ last_cb = "none"
    /\ executing = {}
    /\ twin = NodeInit

ImuMsg ==
    \E msg \in ImuMsgs, tf \in TfLookups :
        /\ Run("imu_callback", imu_callback(Self, msg, tf))
        /\ UNCHANGED <<executing, twin>>

OdomMsg ==
    \E msg \in PoseMsgs(OdomPoses, "odom", {StampOf(1)}) :
        /\ Run("odom_callback", odom_callback(Self, msg))
        /\ UNCHANGED <<executing, twin>>

GnssPoseMsg ==
    \E msg \in PoseMsgs(GnssPoses, "gnss", Stamps) :
        /\ Run("gnss_pose_callback", gnss_pose_callback(Self, msg))
        /\ UNCHANGED <<executing, twin>>

InitialPoseMsg ==
    \E msg \in PoseMsgs(InitialPoses, "map", {StampOf(1)}) :
        /\ HasInitialPoseSubscription
        /\ Run("initialPoseCallback", initialPoseCallback(Self, msg, "initialPoseCallback"))
        /\ UNCHANGED <<executing, twin>>

Timer ==
    /\ Run("broadcastPose", broadcastPose(Self))
    /\ UNCHANGED <<executing, twin>>

Next == ImuMsg \/ OdomMsg \/ GnssPoseMsg \/ InitialPoseMsg \/ Timer

Spec == Init /\ [][Next]_vars

(* The executor's dispatch made explicit: a callback is taken (its handler runs  *)
(* on the node) and later returns; between the two it is executing.            *)

Take(cb, s) ==
    /\ CanTake
    /\ Run(cb, s)
    /\ executing' = executing \cup {cb}
    /\ UNCHANGED twin

TakeImu ==
    \E msg \in ImuMsgs, tf \in TfLookups :
        Take("imu_callback", imu_callback(Self, msg, tf))

TakeOdom ==
    \E msg \in PoseMsgs(OdomPoses, "odom", {StampOf(1)}) :
        Take("odom_callback", odom_callback(Self, msg))

TakeGnssPose ==
    \E msg \in PoseMsgs(GnssPoses, "gnss", Stamps) :
        Take("gnss_pose_callback", gnss_pose_callback(Self, msg))

TakeInitialPose ==
    \E msg \in PoseMsgs(InitialPoses, "map", {StampOf(1)}) :
        /\ HasInitialPoseSubscription
        /\ Take("initialPoseCallback",
                initialPoseCallback(Self, msg, "initialPoseCallback"))

TakeTimer == Take("broadcastPose", broadcastPose(Self))

Return ==
    \E cb \in executing :
        /\ executing' = executing \ {cb}
        /\ UNCHANGED <<cfg, node, last_cb, twin>>

NextExec ==
    TakeImu \/ TakeOdom \/ TakeGnssPose \/ TakeInitialPose \/ TakeTimer \/ Return

SpecExec == Init /\ [][NextExec]_vars

(* The node beside its twin: both receive every message, only the node's timer *)
(* fires.  All messages are well-formed.                                       *)

TwinImuMsg ==
    \E msg \in ImuMsgs, tf \in TfLookups :
        /\ Run("imu_callback", imu_callback(Self, msg, tf))
        /\ twin' = imu_callback(twin, msg, tf)
        /\ UNCHANGED executing

TwinOdomMsg ==
    \E msg \in PoseMsgs(OdomPoses, "odom", {StampOf(1)}) :
        /\ Run("odom_callback", odom_callback(Self, msg))
        /\ twin' = odom_callback(twin, msg)
        /\ UNCHANGED executing

TwinGnssPoseMsg ==
    \E msg \in PoseMsgs(GnssPoses, "gnss", Stamps) :
        /\ Run("gnss_pose_callback", gnss_pose_callback(Self, msg))
        /\ twin' = gnss_pose_callback(twin, msg)
        /\ UNCHANGED executing

TwinInitialPoseMsg ==
    \E msg \in PoseMsgs(InitialPoses \ {PoseMalformed}, "map", {StampOf(1)}) :
        /\ HasInitialPoseSubscription
        /\ Run("initialPoseCallback",
               initialPoseCallback(Self, msg, "initialPoseCallback"))
        /\ twin' = initialPoseCallback(twin, msg, "initialPoseCallback")
        /\ UNCHANGED executing

TwinTimer ==
    /\ Run("broadcastPose", broadcastPose(Self))
    /\ UNCHANGED <<executing, twin>>

NextTwin ==
    TwinImuMsg \/ TwinOdomMsg \/ TwinGnssPoseMsg \/ TwinInitialPoseMsg \/ TwinTimer

SpecTwin == Init /\ [][NextTwin]_vars

(* Properties *)

Ready == initial_pose_.has_value
LastOp == IF last_call.has_value THEN last_call.value.op ELSE "none"

\* C1: while no initial pose has been accepted, predictionUpdate has never been
\* called and IMU messages have left the estimator and current_stamp_ as they
\* were constructed.
C1_NoPredictionBeforeInitialPose ==
    ~Ready =>
        /\ n_calls["predictionUpdate"] = 0
        /\ ekf_ = EkfInit
        /\ current_stamp_ = StampZero

\* an IMU message was handled while initial_pose_ was empty
C1_Witness == last_cb = "imu_callback" /\ ~Ready

\* C2: while no initial pose has been accepted, observationUpdate has never been
\* called, whatever use_gnss, use_odom and use_gnss_as_initial_pose are.
C2_NoObservationBeforeInitialPose ==
    ~Ready => n_calls["observationUpdate"] = 0 /\ LastOp # "observationUpdate"

\* a GNSS pose message was handled with use_gnss set while initial_pose_ was empty
C2_Witness == last_cb = "gnss_pose_callback" /\ use_gnss_ /\ ~Ready

\* C3: while no initial pose has been accepted nothing has been published and no
\* transform has been sent; the node is ready only after an initialization call.
C3_NoOutputBeforeInitialPose ==
    /\ ~Ready => published = NullOpt /\ tf_sent = NullOpt
    /\ Ready => n_calls["setInitialX"] >= 1

\* the broadcast timer fired while initial_pose_ was empty
C3_Witness == last_cb = "broadcastPose" /\ ~Ready /\ broadcast_tf_topic_

\* C4: after an initialization with a well-formed pose and before any predict or
\* update, the pose read back from the estimator is that pose, and so is the pose
\* broadcastPose publishes.
C4_SingleFixDeterminism ==
    (Ready /\ LastOp = "setInitialX" /\ WellFormed(initial_pose_.value.pose)) =>
        /\ PositionOf(getX(ekf_)) = initial_pose_.value.pose.position
        /\ OrientationOf(getX(ekf_)) = initial_pose_.value.pose.orientation
        /\ last_cb = "broadcastPose" =>
              /\ published.has_value
              /\ published.value.pose = initial_pose_.value.pose

\* the timer fired right after an initialization with PoseB that followed an update
C4_Witness ==
    /\ Ready /\ LastOp = "setInitialX" /\ last_cb = "broadcastPose"
    /\ initial_pose_.value.pose = PoseB
    /\ n_calls["observationUpdate"] >= 1
    /\ published = Some(PoseStamped(current_stamp_, reference_frame_id_,
                                    PoseB.position, PoseB.orientation))

\* C5: every initialization call comes from the GNSS pose subscription when
\* use_gnss_as_initial_pose is true and from the initial-pose subscription when it
\* is false.
C5_InitialPoseSourceExclusive ==
    LastOp = "setInitialX" =>
        (last_call.value.cb = "gnss_pose_callback" <=> use_gnss_as_initial_pose_)

\* the estimator was initialized from a GNSS pose message
C5_Witness ==
    /\ LastOp = "setInitialX" /\ last_call.value.cb = "gnss_pose_callback"
    /\ use_gnss_as_initial_pose_

\* C6 as stated: the estimator is initialized at most once, whatever the messages.
C6_InitializedAtMostOnce == n_calls["setInitialX"] <= 1

\* C6 as amended: with use_gnss_as_initial_pose true the estimator is initialized
\* at most once, whatever the messages (with the dedicated initial-pose
\* subscription every initial-pose message initializes it again).
C6_InitializedOnceFromGnss ==
    use_gnss_as_initial_pose_ => n_calls["setInitialX"] <= 1

\* in GNSS-as-initial-pose mode a GNSS message after the initializing one was
\* forwarded as an update, not as a second initialization
C6_Witness ==
    /\ use_gnss_as_initial_pose_ /\ n_calls["setInitialX"] = 1
    /\ last_cb = "gnss_pose_callback" /\ LastOp = "observationUpdate"

\* C7: a malformed initial pose is rejected: initial_pose_ never holds one, and
\* the estimator state never holds a non-finite component.
C7_MalformedInitialPoseRejected ==
    /\ Ready => WellFormed(initial_pose_.value.pose)
    /\ \A i \in StateIndex : IsFinite(ekf_.x[i])

\* C8: a prediction sample stamped earlier than the previously processed one
\* changes neither the estimator nor current_stamp_ (the stamp of later
\* broadcasts).
C8_EarlierSampleLeavesState ==
    [][(/\ n_calls'["predictionUpdate"] = n_calls["predictionUpdate"] + 1
        /\ ekf_.previous_time_imu.has_value
        /\ last_call'.value.t < ekf_.previous_time_imu.value)
       => (ekf_' = ekf_ /\ current_stamp_' = current_stamp_)]_vars

\* C9: at most one callback of the node executes at any time.
C9_CallbacksSerialized == Cardinality(executing) <= 1

\* the GNSS callback executes after IMU samples were processed
C9_Witness ==
    /\ executing = {"gnss_pose_callback"}
    /\ n_calls["predictionUpdate"] >= 1

\* C10: the estimator, the ready flag and the calls made on the estimator with
\* their arguments are those of the twin whose timer never fired.
C10_BroadcastDoesNotInfluenceCalls ==
    /\ ekf_ = twin.ekf_
    /\ initial_pose_ = twin.initial_pose_
    /\ last_call = twin.last_call
    /\ n_calls = twin.n_calls

\* the estimator call made by the latest callback that made one was a
\* measurement update requested by callback cb
UpdateFrom(cb) ==
    /\ LastOp = "observationUpdate"
    /\ last_call.value.cb = cb

\* C11: a measurement update that stems from an odometry message is made only
\* with use_odom true, and one that stems from a GNSS pose message only with
\* use_gnss true; a GNSS message may still initialize the node with use_gnss
\* false when use_gnss_as_initial_pose is true
C11_EnableFlagsHonoured ==
    /\ UpdateFrom("odom_callback") => use_odom_
    /\ UpdateFrom("gnss_pose_callback") => use_gnss_
    /\ (~use_odom_ /\ ~use_gnss_) => n_calls["observationUpdate"] = 0

\* with use_gnss false a GNSS message initialized the node and a later GNSS
\* message, handled after an inertial sample, caused no estimator call
C11_Witness ==
    /\ ~use_gnss_
    /\ use_gnss_as_initial_pose_
    /\ Ready
    /\ last_cb = "gnss_pose_callback"
    /\ LastOp = "predictionUpdate"

\* C12: every measurement update that stems from a GNSS pose message carries
\* (var_gnss_xy, var_gnss_xy, var_gnss_z) and every one that stems from an
\* odometry message (var_odom_xyz, var_odom_xyz, var_odom_xyz)
C12_VarianceOfSource ==
    /\ UpdateFrom("gnss_pose_callback") =>
          last_call.value.variance = <<var_gnss_xy_, var_gnss_xy_, var_gnss_z_>>
    /\ UpdateFrom("odom_callback") =>
          last_call.value.variance = <<var_odom_xyz_, var_odom_xyz_, var_odom_xyz_>>

\* an odometry message caused a measurement update after a GNSS one did
C12_Witness ==
    /\ UpdateFrom("odom_callback")
    /\ last_cb = "odom_callback"
    /\ n_calls["observationUpdate"] >= 2
    /\ use_gnss_

\* the node after a callback made exactly one estimator call, op, for the
\* message stamped stamp, and no other call
ExactlyOne(s2, op, stamp) ==
    /\ s2.n_calls = [n_calls EXCEPT ![op] = @ + 1]
    /\ s2.last_call.has_value
    /\ s2.last_call.value.op = op
    /\ s2.last_call.value.stamp = stamp

\* C13: once the node is initialized, handling an IMU message whose transform
\* succeeds makes exactly one predictionUpdate, for that message, and handling a
\* GNSS pose message with use_gnss true makes exactly one observationUpdate, for
\* that message: the call is made within the callback, so estimator calls follow
\* the order of the callbacks with nothing buffered, reordered or duplicated
C13_AppliedInArrivalOrder ==
    Ready =>
        /\ \A msg \in ImuMsgs : \A tf \in TfLookups :
              (tf # "TransformException" /\ tf # "runtime_error") =>
                  LET s2 == imu_callback(Self, msg, tf)
                  IN  /\ ExactlyOne(s2, "predictionUpdate", msg.stamp)
                      /\ s2.last_call.value.t = ToTime(msg.stamp)
        /\ use_gnss_ =>
              \A msg \in PoseMsgs(GnssPoses, "gnss", Stamps) :
                  LET s2 == gnss_pose_callback(Self, msg)
                  IN  /\ ExactlyOne(s2, "observationUpdate", msg.stamp)
                      /\ s2.last_call.value.y = msg.pose.position

\* an IMU message was applied after a GNSS measurement, as the latest call
C13_Witness ==
    /\ Ready
    /\ last_cb = "imu_callback"
    /\ LastOp = "predictionUpdate"
    /\ last_call.value.stamp = current_stamp_
    /\ n_calls["observationUpdate"] >= 1
    /\ n_calls["setInitialX"] = 1

\* the state vector that holds pose and zero in every other component
VectorOfPose(pose) ==
    [i \in StateIndex |->
        CASE i = "X" -> pose.position[1]
          [] i = "Y" -> pose.position[2]
          [] i = "Z" -> pose.position[3]
          [] i = "QX" -> pose.orientation[1]
          [] i = "QY" -> pose.orientation[2]
          [] i = "QZ" -> pose.orientation[3]
          [] i = "QW" -> pose.orientation[4]
          [] OTHER -> 0]

\* C14: initialization hands the estimator a vector of getNumState()
\* components whose position and orientation are those of the given pose and
\* whose other components are zero; after a later initialization with a
\* well-formed pose the estimator holds exactly that vector, nothing of the
\* state estimated before, and waits for a first inertial sample again
C14_InitialVectorFromPose ==
    LastOp = "setInitialX" =>
        /\ Cardinality(DOMAIN last_call.value.x) = getNumState
        /\ last_call.value.x = VectorOfPose(initial_pose_.value.pose)
        /\ WellFormed(initial_pose_.value.pose) =>
              /\ ekf_.ready
              /\ ekf_.x = VectorOfPose(initial_pose_.value.pose)
              /\ ekf_.previous_time_imu = NullOpt

\* a second initialization, from PoseA, after a GNSS measurement had moved the
\* estimate to PoseB
C14_Witness ==
    /\ LastOp = "setInitialX"
    /\ n_calls["setInitialX"] = 2
    /\ n_calls["observationUpdate"] = 1
    /\ initial_pose_.value.pose = PoseA
    /\ published.has_value
    /\ published.value.pose.position = PoseB.position

\* C15: an IMU message whose frame lookup throws, a tf2::TransformException or
\* another runtime error, leaves the whole node as it was: no predictionUpdate,
\* the estimator state, current_stamp_ and the ready flag unchanged; a message
\* handled afterwards therefore meets the state it would have met without it
C15_FailedLookupLeavesState ==
    \A msg \in ImuMsgs : \A tf \in TfLookups :
        (tf = "TransformException" \/ tf = "runtime_error") =>
            LET s2 == imu_callback(Self, msg, tf)
            IN  /\ s2 = Self
                /\ s2.ekf_ = ekf_
                /\ s2.current_stamp_ = current_stamp_
                /\ s2.n_calls = n_calls

\* the node is initialized and the IMU message handled right after the
\* initialization caused no estimator call: its lookup failed
C15_Witness ==
    /\ Ready
    /\ ekf_.ready
    /\ last_cb = "imu_callback"
    /\ LastOp = "setInitialX"
    /\ current_stamp_ = StampZero

\* C16: in GNSS-as-initial-pose mode the GNSS message that meets an
\* uninitialized node is consumed by the initialization alone: handling it makes
\* one setInitialX and no observationUpdate, so that a GNSS measurement stems
\* from the second GNSS message at the earliest, after the single initialization
C16_InitializingFixNotMeasured ==
    /\ (use_gnss_as_initial_pose_ /\ ~Ready) =>
          /\ n_calls["observationUpdate"] = 0
          /\ \A msg \in PoseMsgs(GnssPoses, "gnss", Stamps) :
                LET s2 == gnss_pose_callback(Self, msg)
                IN  /\ ExactlyOne(s2, "setInitialX", msg.stamp)
                    /\ s2.initial_pose_ = Some(msg)
                    /\ s2.current_stamp_ = current_stamp_
    /\ (use_gnss_as_initial_pose_ /\ UpdateFrom("gnss_pose_callback")) =>
          /\ n_calls["setInitialX"] = 1
          /\ last_call.value.stamp = current_stamp_

\* the node was initialized by a GNSS message, with use_gnss true, and no
\* measurement has been made
C16_Witness ==
    /\ use_gnss_as_initial_pose_
    /\ use_gnss_
    /\ last_cb = "gnss_pose_callback"
    /\ LastOp = "setInitialX"
    /\ n_calls["observationUpdate"] = 0
    /\ current_stamp_ = StampZero

\* C17: with use_odom true and the node initialized, once an odometry message
\* has been handled (the latest callback was odom_callback, which recorded the
\* baseline or made an update), every further odometry message causes exactly
\* one measurement update, whatever the poses of the messages
C17_OnlyFirstOdomIsBaseline ==
    (Ready /\ ekf_.ready /\ use_odom_ /\ last_cb = "odom_callback") =>
        \A msg \in PoseMsgs(OdomPoses, "odom", {StampOf(1)}) :
            ExactlyOne(odom_callback(Self, msg), "observationUpdate", msg.stamp)

\* C18: when a second initial pose, well-formed and other than the pose of the
\* anchor, has just been accepted, the odometry anchor the node holds was
\* captured before it, so the next odometry message must not cause a measurement
\* computed from that anchor: it makes no measurement update
C18_ReinitDropsOdomAnchor ==
    (/\ use_odom_
     /\ last_cb = "initialPoseCallback"
     /\ n_calls["setInitialX"] >= 2
     /\ WellFormed(initial_pose_.value.pose)
     /\ WellFormed(current_pose_odom_.pose)
     /\ current_pose_odom_.pose # initial_pose_.value.pose) =>
        \A msg \in PoseMsgs(OdomPoses, "odom", {StampOf(1)}) :
            odom_callback(Self, msg).n_calls["observationUpdate"] =
                n_calls["observationUpdate"]

\* the translation of a homogeneous transform
TranslationOf(mat) == <<mat[1][4], mat[2][4], mat[3][4]>>

\* the pose the estimator reports
EstimatedPose == Pose(PositionOf(getX(ekf_)), OrientationOf(getX(ekf_)))

\* C19: the position fed for an odometry message is the translation of
\* anchor * inverse(previous odometry pose) * (current odometry pose), where the
\* anchor is the pose the estimator reported when the previous odometry message
\* was handled; stated right after that previous message, when the report of
\* the estimator is still the same
C19_OdomAnchoredToEstimate ==
    (/\ Ready
     /\ ekf_.ready
     /\ use_odom_
     /\ last_cb = "odom_callback"
     /\ previous_odom_mat_ # Identity4
     /\ WellFormed(current_pose_odom_.pose)) =>
        \A msg \in PoseMsgs(OdomPoses, "odom", {StampOf(1)}) :
            LET s2 == odom_callback(Self, msg)
            IN  /\ s2.last_call.has_value
                /\ s2.last_call.value.op = "observationUpdate"
                /\ s2.last_call.value.y =
                      TranslationOf(MatMul(MatMul(PoseToMat(EstimatedPose),
                                                  Inverse(previous_odom_mat_)),
                                           PoseToMat(msg.pose)))

\* the latest estimator call was applied by the estimator (it was not rejected):
\* an initial pose with finite components, a position sample handed to an
\* initialized estimator, or an inertial sample that became the reference time
LastCallApplied ==
    /\ last_call.has_value
    /\ ekf_.ready
    /\ CASE LastOp = "setInitialX" -> WellFormed(initial_pose_.value.pose)
         [] LastOp = "observationUpdate" -> FiniteVec(last_call.value.y)
         [] LastOp = "predictionUpdate" ->
                ekf_.previous_time_imu = Some(last_call.value.t)
         [] OTHER -> FALSE

\* C20: right after broadcastPose ran on an initialized node, the pose it
\* published carries the timestamp of the most recent message applied to the
\* estimator (initial pose, IMU sample or position sample) and the reference
\* frame id, and the transform it sent, if any, names the same stamp and frame
\* and has the translation and rotation of the published pose
C20_BroadcastCarriesLatestStamp ==
    (last_cb = "broadcastPose" /\ Ready /\ LastCallApplied) =>
        /\ published.has_value
        /\ published.value.stamp = last_call.value.stamp
        /\ published.value.frame_id = reference_frame_id_
        /\ broadcast_tf_topic_ =>
              /\ tf_sent.has_value
              /\ tf_sent.value.stamp = published.value.stamp
              /\ tf_sent.value.frame_id = reference_frame_id_
              /\ tf_sent.value.child_frame_id = robot_frame_id_
              /\ tf_sent.value.translation = published.value.pose.position
              /\ tf_sent.value.rotation = published.value.pose.orientation

====
